---- MODULE Spec2Model ----
(***************************************************************************)
(* Model of skriv's native backend, src-tauri/src/lib.rs: the install_cli  *)
(* command, the CliArgs record served by get_cli_args, the single-instance *)
(* callback, and the native menu with its on_menu_event handler.           *)
(*                                                                         *)
(* Text is modelled as a sequence of tokens.  A token is either one        *)
(* character that some parser in the chain treats specially (backslash,    *)
(* double quote, single quote, newline, the letter n after a backslash, a  *)
(* byte that is not valid UTF-8) or a run of ordinary characters.          *)
(***************************************************************************)
EXTENDS Naturals, Sequences, FiniteSets

----------------------------------------------------------------------------
(* Bounds of the model.                                                    *)

MaxProcs == 3
MaxInstallThreads == 2
MaxQueryThreads == 2
MaxOps == 6

Procs == 1..MaxProcs
InstallThreads == 1..MaxInstallThreads
QueryThreads == 1..MaxQueryThreads

----------------------------------------------------------------------------
(* Characters.                                                             *)

BS == "\\"
DQ == "\""
SQ == "'"
NL == "\n"
LetterN == "n"
InvalidByte == "<0xFF>"
Replacement == "<U+FFFD>"

(* The character an escape sequence  \c  stands for, in a Rust string      *)
(* literal, in an AppleScript string literal and in a printf format.       *)
EscapeOf(c) == IF c = LetterN THEN NL ELSE c

RECURSIVE Unescape(_)
Unescape(s) ==
    IF s = <<>> THEN <<>>
    ELSE IF Head(s) = BS /\ Len(s) >= 2
         THEN <<EscapeOf(s[2])>> \o Unescape(SubSeq(s, 3, Len(s)))
         ELSE <<Head(s)>> \o Unescape(Tail(s))

(* String::from_utf8_lossy and Path::to_string_lossy: every invalid byte   *)
(* becomes U+FFFD, everything else is kept.                                *)
Lossy(s) == [i \in 1..Len(s) |-> IF s[i] = InvalidByte THEN Replacement ELSE s[i]]

IsUtf8(s) == \A i \in 1..Len(s) : s[i] # InvalidByte

----------------------------------------------------------------------------
(* install_cli: the launcher script and the command that writes it.        *)

(* The install path (line 9), one token: it holds no special character.    *)
path == "/usr/local/bin/skriv"

AppPath == "/Applications/skriv.app/Contents/MacOS/app "

(* The characters between the quotes of the literal of line 10.            *)
ScriptLiteral ==
    <<"#!/bin/sh", BS, BS, LetterN, AppPath, BS, BS, BS, DQ, "$@",
      BS, BS, BS, DQ, " &", BS, BS, LetterN>>

(* A variant of the literal of line 14: the text of line 10 pasted in.     *)
CheckLiteral_Pasted == ScriptLiteral

(* The characters between the quotes of the literal of line 14.            *)
CheckLiteral ==
    <<"#!/bin/sh", BS, LetterN, AppPath, BS, DQ, "$@", BS, DQ, " &", BS, LetterN>>

(* The values the Rust compiler gives the two literals.                    *)
script_content == Unescape(ScriptLiteral)
check_content == Unescape(CheckLiteral)

(* format!("printf '{}' > {} && chmod +x {}", script_content, path, path)  *)
cmd == <<"printf ", SQ>> \o script_content \o <<SQ, " > ", path, " && chmod +x ", path>>

(* format!("do shell script \"{}\" with administrator privileges", cmd)    *)
osascript_arg ==
    <<"do shell script ", DQ>> \o cmd \o <<DQ, " with administrator privileges">>

(* AppleScript reads a string literal up to the first quote that no        *)
(* backslash escapes, replacing the escape sequences on the way.           *)
RECURSIVE ScanString(_)
ScanString(s) ==
    IF s = <<>> THEN [closed |-> FALSE, str |-> <<>>, rest |-> <<>>]
    ELSE IF Head(s) = DQ THEN [closed |-> TRUE, str |-> <<>>, rest |-> Tail(s)]
    ELSE IF Head(s) = BS /\ Len(s) >= 2
         THEN LET r == ScanString(SubSeq(s, 3, Len(s)))
              IN  [r EXCEPT !.str = <<EscapeOf(s[2])>> \o r.str]
         ELSE LET r == ScanString(Tail(s))
              IN  [r EXCEPT !.str = <<Head(s)>> \o r.str]

(* osascript -e <script>: the shell command the script hands to            *)
(* `do shell script`, when the script is that one statement.               *)
DoShellScript(script) ==
    IF Len(script) >= 2 /\ script[1] = "do shell script " /\ script[2] = DQ
    THEN LET r == ScanString(SubSeq(script, 3, Len(script)))
         IN  [ok |-> r.closed /\ r.rest = <<" with administrator privileges">>,
              sh |-> r.str]
    ELSE [ok |-> FALSE, sh |-> <<>>]

(* The tokens of s before its first single quote, and those after it.      *)
RECURSIVE UpToSQ(_)
UpToSQ(s) ==
    IF s = <<>> THEN [closed |-> FALSE, str |-> <<>>, rest |-> <<>>]
    ELSE IF Head(s) = SQ THEN [closed |-> TRUE, str |-> <<>>, rest |-> Tail(s)]
    ELSE LET r == UpToSQ(Tail(s)) IN [r EXCEPT !.str = <<Head(s)>> \o r.str]

(* printf's format: escape sequences are replaced (there is no % in it).   *)
Printf(fmt) == Unescape(fmt)

(* sh -c "printf '<fmt>' > <target> && chmod +x <mode target>": the file   *)
(* it writes, what it writes, and the file it makes executable.            *)
ShellRun(sh) ==
    IF Len(sh) >= 2 /\ sh[1] = "printf " /\ sh[2] = SQ
    THEN LET q == UpToSQ(SubSeq(sh, 3, Len(sh)))
         IN  IF q.closed /\ Len(q.rest) = 4 /\ q.rest[1] = " > "
                /\ q.rest[3] = " && chmod +x "
             THEN [ok |-> TRUE, target |-> q.rest[2], content |-> Printf(q.str),
                   chmod |-> q.rest[4]]
             ELSE [ok |-> FALSE, target |-> "", content |-> <<>>, chmod |-> ""]
    ELSE [ok |-> FALSE, target |-> "", content |-> <<>>, chmod |-> ""]

(* What the privileged command of lines 19-29 does when it is allowed to   *)
(* run to the end.                                                         *)
PrivilegedWrite ==
    LET a == DoShellScript(osascript_arg) IN
    IF a.ok THEN ShellRun(a.sh)
    ELSE [ok |-> FALSE, target |-> "", content |-> <<>>, chmod |-> ""]

----------------------------------------------------------------------------
(* The file system entry at the install path, and the outcomes of the      *)
(* calls install_cli makes.                                                *)

Missing == [exists |-> FALSE, content |-> <<>>, readable |-> FALSE, exec |-> FALSE]

(* A launcher left by an earlier release: it differs from the current one  *)
(* in its command; and the current one cut short by its last byte.         *)
OlderScript == <<"#!/bin/sh", NL, "open -a skriv ", DQ, "$@", DQ, NL>>
Truncated(c) == SubSeq(c, 1, Len(c) - 1)

(* What the install path may hold before the first call.  A file that      *)
(* holds the launcher was written by an earlier run of the privileged      *)
(* command.                                                                *)
InitialFiles ==
    {Missing} \cup
    [exists : {TRUE},
     content : {PrivilegedWrite.content, Truncated(PrivilegedWrite.content),
                OlderScript, <<InvalidByte>>},
     readable : BOOLEAN, exec : BOOLEAN]

(* std::fs::read_to_string(path), line 13.                                 *)
read_to_string(f) ==
    IF f.exists /\ f.readable /\ IsUtf8(f.content)
    THEN [ok |-> TRUE, contents |-> f.content]
    ELSE [ok |-> FALSE, contents |-> <<>>]

(* A variant of the check: any readable file counts as installed.         *)
is_installed_AnyFile(f) == read_to_string(f).ok

(* Lines 13-17: the check that ends the call early.                        *)
is_installed(f) ==
    LET r == read_to_string(f) IN r.ok /\ r.contents = check_content

Ok(text) == [ok |-> TRUE, text |-> text]
Err(text) == [ok |-> FALSE, text |-> text]

(* What Command::new("osascript")...output() can come back with: it could  *)
(* not be started (an io::Error), or it ran and exited, successfully or    *)
(* with a diagnostic on stderr (the prompt dismissed, the shell command    *)
(* failed before it wrote).                                                *)
SpawnErrors == {<<"No such file or directory (os error 2)">>}
StderrOutputs ==
    {<<"0:124: execution error: User canceled. (-128)", NL>>,
     <<"operation not permitted">>,
     <<"0:124: execution error: sh: ", InvalidByte, ": Permission denied (1)", NL>>}
OsaOutputs ==
    [spawned : {FALSE}, success : {FALSE}, stderr : {<<>>}, err : SpawnErrors]
    \cup [spawned : {TRUE}, success : {FALSE}, stderr : StderrOutputs, err : {<<>>}]
    \cup [spawned : {TRUE}, success : {TRUE}, stderr : {<<>>}, err : {<<>>}]

(* A variant of lines 30-37: a failure is reported by a fixed message.     *)
install_result_Generic(out) ==
    IF out.spawned /\ out.success THEN Ok(<<"installed">>)
    ELSE Err(<<"Failed to install CLI">>)

(* Lines 30-37: the value install_cli returns for an output.               *)
install_result(out) ==
    IF ~out.spawned THEN Err(out.err)
    ELSE IF out.success THEN Ok(<<"installed">>)
    ELSE Err(Lossy(out.stderr))

(* A variant of line 41: the other platforms answer as if the launcher    *)
(* were in place.                                                          *)
Unsupported_Silent == Ok(<<"already_installed">>)

(* Line 41.                                                                *)
Unsupported == Err(<<"CLI installation is only supported on macOS">>)

(* The install path after the privileged command w ran to its end on f:    *)
(* `>` creates the file (readable) or truncates it (keeping its mode),     *)
(* chmod +x adds the executable bits.                                      *)
FileAfter(f, w) ==
    LET g == IF w.target = path
             THEN [exists |-> TRUE, content |-> w.content,
                   readable |-> IF f.exists THEN f.readable ELSE TRUE,
                   exec |-> IF f.exists THEN f.exec ELSE FALSE]
             ELSE f
    IN  IF w.chmod = path /\ g.exists THEN [g EXCEPT !.exec = TRUE] ELSE g

----------------------------------------------------------------------------
(* Process launches: what the operating system hands a process.            *)

LaunchContexts ==
    {[args |-> <<"skriv", "a.txt">>, cwd |-> [ok |-> TRUE, bytes |-> <<"/home/u">>]],
     [args |-> <<"skriv", "b.txt">>, cwd |-> [ok |-> TRUE, bytes |-> <<"/tmp">>]],
     [args |-> <<"skriv", "b.txt">>,
      cwd |-> [ok |-> TRUE, bytes |-> <<"/tmp/", InvalidByte>>]],
     [args |-> <<"skriv">>, cwd |-> [ok |-> FALSE, bytes |-> <<>>]]}

NoContext == [args |-> <<>>, cwd |-> [ok |-> FALSE, bytes |-> <<>>]]

(* A variant of lines 70-76: the program name is skipped.                  *)
CliArgs_SkipArgv0(c) ==
    [args |-> Tail(c.args),
     cwd |-> IF c.cwd.ok THEN Lossy(c.cwd.bytes) ELSE <<>>]

(* A variant of lines 72-75: unwrap_or(".") in place of unwrap_or_default. *)
CliArgs_DotOnFailure(c) ==
    [args |-> c.args,
     cwd |-> IF c.cwd.ok THEN Lossy(c.cwd.bytes) ELSE <<".">>]

(* Lines 70-76: the CliArgs value run() builds.  unwrap_or_default gives   *)
(* the empty path when current_dir fails.                                  *)
CliArgs(c) ==
    [args |-> c.args,
     cwd |-> IF c.cwd.ok THEN Lossy(c.cwd.bytes) ELSE <<>>]

NoCliArgs == [args |-> <<>>, cwd |-> <<>>]

(* Lines 51-54: what get_cli_args returns for the locked record.           *)
get_cli_args(cli) == <<cli.args, cli.cwd>>

(* The pair the single-instance plugin of a secondary process sends: its   *)
(* arguments, and its working directory as a string (empty when the query  *)
(* fails or the path is not UTF-8).                                        *)
Forwarded(c) ==
    [args |-> c.args,
     cwd |-> IF c.cwd.ok /\ IsUtf8(c.cwd.bytes) THEN c.cwd.bytes ELSE <<>>]

(* The unit payload ().                                                    *)
Unit == <<>>

(* app.emit(event, payload) as a call on the host, with its outcome.       *)
Emit(event, payload, ok) ==
    [call |-> "emit", event |-> event, payload |-> payload, ok |-> ok]
HostCall(name, ok) == [call |-> name, event |-> "", payload |-> <<>>, ok |-> ok]

(* What the host answers during one callback: whether emit succeeds,       *)
(* whether the window "main" exists, whether unminimize and set_focus      *)
(* succeed (there is no such answer without a window).                     *)
HostAnswers ==
    {h \in [emit : BOOLEAN, window : BOOLEAN, unminimize : BOOLEAN, focus : BOOLEAN] :
        ~h.window => ~h.unminimize /\ ~h.focus}

(* Variants of lines 59-65: the emit moved inside the `if let`; the        *)
(* callback given up when the emit fails; the program name dropped from    *)
(* the payload.                                                            *)
single_instance_callback_EmitInsideIf(args, cwd, host) ==
    IF host.window
    THEN <<Emit("open-files", <<args, cwd>>, host.emit),
           HostCall("unminimize", host.unminimize), HostCall("set_focus", host.focus)>>
    ELSE <<>>

single_instance_callback_StopOnError(args, cwd, host) ==
    <<Emit("open-files", <<args, cwd>>, host.emit)>>
    \o (IF host.emit /\ host.window
        THEN <<HostCall("unminimize", host.unminimize)>>
             \o (IF host.unminimize THEN <<HostCall("set_focus", host.focus)>> ELSE <<>>)
        ELSE <<>>)

single_instance_callback_SkipArgv0(args, cwd, host) ==
    <<Emit("open-files", <<Tail(args), cwd>>, host.emit)>>
    \o (IF host.window
        THEN <<HostCall("unminimize", host.unminimize), HostCall("set_focus", host.focus)>>
        ELSE <<>>)

(* A variant of lines 59-65: the window is raised before the emit.         *)
single_instance_callback_FocusFirst(args, cwd, host) ==
    (IF host.window
     THEN <<HostCall("set_focus", host.focus), HostCall("unminimize", host.unminimize)>>
     ELSE <<>>)
    \o <<Emit("open-files", <<args, cwd>>, host.emit)>>

(* Lines 59-65: the calls the single-instance callback makes, in order.    *)
single_instance_callback(args, cwd, host) ==
    <<Emit("open-files", <<args, cwd>>, host.emit)>>
    \o (IF host.window
        THEN <<HostCall("unminimize", host.unminimize), HostCall("set_focus", host.focus)>>
        ELSE <<>>)

----------------------------------------------------------------------------
(* The menu.                                                               *)

(* A variant of lines 91-114: one more item, which no arm handles.         *)
CustomItemIds_Extra ==
    {"new_tab", "open_file", "save_file", "save_file_as", "toggle_comment",
     "format_document", "column_selection", "command_palette", "word_wrap",
     "toggle_theme", "find"}

(* Lines 91-114: the identifiers of the MenuItem::with_id items.           *)
CustomItemIds ==
    {"new_tab", "open_file", "save_file", "save_file_as", "toggle_comment",
     "format_document", "column_selection", "command_palette", "word_wrap",
     "toggle_theme"}

(* Lines 80-125: the PredefinedMenuItem items, named by their kind.        *)
PredefinedItems ==
    {"about", "services", "hide", "hide_others", "show_all", "quit", "close_window",
     "undo", "redo", "cut", "copy", "paste", "select_all", "fullscreen", "minimize",
     "maximize"}

NoMenu == [custom |-> {}, predefined |-> {}]
AppMenu == [custom |-> CustomItemIds, predefined |-> PredefinedItems]

(* A variant of lines 131-146: the arm of save_file_as emits the event of  *)
(* save_file.                                                              *)
on_menu_event_CopiedArm(id, ok) ==
    CASE id = "command_palette" -> <<Emit("menu-command-palette", Unit, ok)>>
      [] id = "word_wrap" -> <<Emit("menu-word-wrap", Unit, ok)>>
      [] id = "toggle_comment" -> <<Emit("menu-toggle-comment", Unit, ok)>>
      [] id = "new_tab" -> <<Emit("menu-new-tab", Unit, ok)>>
      [] id = "open_file" -> <<Emit("menu-open-file", Unit, ok)>>
      [] id = "save_file" -> <<Emit("menu-save-file", Unit, ok)>>
      [] id = "save_file_as" -> <<Emit("menu-save-file", Unit, ok)>>
      [] id = "format_document" -> <<Emit("menu-format-document", Unit, ok)>>
      [] id = "column_selection" -> <<Emit("menu-column-selection", Unit, ok)>>
      [] id = "toggle_theme" -> <<Emit("menu-toggle-theme", Unit, ok)>>
      [] OTHER -> <<>>

(* Lines 131-146: the calls the on_menu_event handler makes for id.        *)
on_menu_event(id, ok) ==
    CASE id = "command_palette" -> <<Emit("menu-command-palette", Unit, ok)>>
      [] id = "word_wrap" -> <<Emit("menu-word-wrap", Unit, ok)>>
      [] id = "toggle_comment" -> <<Emit("menu-toggle-comment", Unit, ok)>>
      [] id = "new_tab" -> <<Emit("menu-new-tab", Unit, ok)>>
      [] id = "open_file" -> <<Emit("menu-open-file", Unit, ok)>>
      [] id = "save_file" -> <<Emit("menu-save-file", Unit, ok)>>
      [] id = "save_file_as" -> <<Emit("menu-save-file-as", Unit, ok)>>
      [] id = "format_document" -> <<Emit("menu-format-document", Unit, ok)>>
      [] id = "column_selection" -> <<Emit("menu-column-selection", Unit, ok)>>
      [] id = "toggle_theme" -> <<Emit("menu-toggle-theme", Unit, ok)>>
      [] OTHER -> <<>>

----------------------------------------------------------------------------
(* The state.                                                              *)

VARIABLES
    platform,   \* the target_os the build was made for (lines 7, 39)
    file,       \* the file system entry at the install path
    inst,       \* per install_cli call in progress: its position and what it read
    conv,       \* a call has returned Ok and left a launcher the process can read
    must,       \* a call that had to write has returned
    ctx,        \* per process, until it is gone and its launch handled: the
                \* arguments and working directory the OS gave it
    role,       \* per process: "none", "primary" or "secondary"
    phase,      \* per process: "unstarted", "built", "running", "crashed", "exited"
    managed,    \* per process: the CliArgs inside the managed Mutex
    pending,    \* forwarded launches the primary has not handled yet
    opened,     \* number of open-files emits made so far
    menu,       \* per process: the menu set by app.set_menu
    mutex,      \* the query thread holding the Mutex<CliArgs>, 0 when free
    query,      \* per query thread: "idle", "waiting" (blocked in lock()) or "locked"
    answered,   \* per process: the values get_cli_args has returned so far
    last,       \* the handler that returned last: its inputs, host calls, result
    nops        \* number of steps taken

vars == <<platform, file, inst, conv, must, ctx, role, phase, managed, pending,
          opened, menu, mutex, query, answered, last, nops>>

installerVars == <<file, inst, conv, must>>
processVars == <<ctx, role, phase, managed, pending, opened, menu>>
queryVars == <<mutex, query, answered>>

Idle == [pc |-> "idle", seen |-> Missing, afterConv |-> FALSE, afterMust |-> FALSE]

InitWith(files) ==
    /\ platform \in {"macos", "other"}
    /\ file \in files
    /\ inst = [t \in InstallThreads |-> Idle]
    /\ conv = FALSE
    /\ must = FALSE
    /\ ctx = [p \in Procs |-> NoContext]
    /\ role = [p \in Procs |-> "none"]
    /\ phase = [p \in Procs |-> "unstarted"]
    /\ managed = [p \in Procs |-> NoCliArgs]
    /\ pending = {}
    /\ opened = 0
    /\ menu = [p \in Procs |-> NoMenu]
    /\ mutex = 0
    /\ query = [t \in QueryThreads |-> "idle"]
    /\ answered = [p \in Procs |-> {}]
    /\ last = [op |-> "none"]
    /\ nops = 0

(* For the whole program: no launcher, or the launcher in place.           *)
SampleFiles ==
    {f \in InitialFiles :
        f.exists => f.readable /\ f.exec /\ f.content = PrivilegedWrite.content}

Init == InitWith(SampleFiles)
InitInstaller == InitWith(InitialFiles)

Alive == {p \in Procs : phase[p] \in {"built", "running"}}
Running == {p \in Procs : phase[p] = "running"}
Primaries == {p \in Alive : role[p] = "primary"}

----------------------------------------------------------------------------
(* run(): process start, lines 57-77 and 157.                              *)

(* Process p starts with context c.  The single-instance plugin decides:   *)
(* with a primary alive, p sends its pair to it and exits (and its         *)
(* CliArgs with it); otherwise p is the primary and manages its CliArgs.   *)
Launch(p, c) ==
    /\ phase[p] = "unstarted"
    /\ \A q \in Procs : q < p => phase[q] # "unstarted"
    /\ ctx' = [ctx EXCEPT ![p] = c]
    /\ IF Primaries # {}
       THEN /\ role' = [role EXCEPT ![p] = "secondary"]
            /\ phase' = [phase EXCEPT ![p] = "exited"]
            /\ managed' = managed
            /\ pending' = pending \cup
                   {[from |-> p, to |-> q, args |-> Forwarded(c).args,
                     cwd |-> Forwarded(c).cwd] : q \in Primaries}
       ELSE /\ role' = [role EXCEPT ![p] = "primary"]
            /\ phase' = [phase EXCEPT ![p] = "built"]
            /\ managed' = [managed EXCEPT ![p] = CliArgs(c)]
            /\ pending' = pending
    /\ UNCHANGED <<platform, installerVars, opened, menu, queryVars, last>>

(* A variant of lines 78-156: the setup closure ends with a call of        *)
(* install_cli, up to its early return or its privileged command.          *)
Setup_InstallAtStartup(p, hostOk) ==
    /\ role[p] = "primary" /\ phase[p] = "built"
    /\ IF hostOk
       THEN /\ menu' = [menu EXCEPT ![p] = AppMenu]
            /\ phase' = [phase EXCEPT ![p] = "running"]
            /\ UNCHANGED <<ctx, managed>>
            /\ IF platform # "macos"
               THEN /\ last' = [op |-> "install_cli", thread |-> 1, seen |-> Missing,
                                read |-> FALSE, attempts |-> 0, prompts |-> 0,
                                writes |-> 0,
                                out |-> [spawned |-> FALSE, success |-> FALSE,
                                         stderr |-> <<>>, err |-> <<>>],
                                ret |-> Unsupported, afterConv |-> conv,
                                afterMust |-> must]
                    /\ UNCHANGED <<inst, conv>>
               ELSE IF is_installed(file)
               THEN /\ last' = [op |-> "install_cli", thread |-> 1, seen |-> file,
                                read |-> TRUE, attempts |-> 0, prompts |-> 0,
                                writes |-> 0,
                                out |-> [spawned |-> FALSE, success |-> FALSE,
                                         stderr |-> <<>>, err |-> <<>>],
                                ret |-> Ok(<<"already_installed">>),
                                afterConv |-> conv, afterMust |-> must]
                    /\ conv' = TRUE
                    /\ inst' = inst
               ELSE /\ inst' = [inst EXCEPT ![1] = [pc |-> "write", seen |-> file,
                                                    afterConv |-> conv,
                                                    afterMust |-> must]]
                    /\ UNCHANGED <<last, conv>>
       ELSE /\ menu' = menu
            /\ phase' = [phase EXCEPT ![p] = "crashed"]
            /\ ctx' = [ctx EXCEPT ![p] = NoContext]
            /\ managed' = [managed EXCEPT ![p] = NoCliArgs]
            /\ UNCHANGED <<inst, conv, last>>
    /\ UNCHANGED <<platform, file, must, role, pending, opened, queryVars>>

(* The setup closure, lines 78-156: it builds the menu, sets it and        *)
(* registers on_menu_event; any host error (a `?`) ends run() in the       *)
(* panic of line 158.                                                      *)
Setup(p, hostOk) ==
    /\ role[p] = "primary" /\ phase[p] = "built"
    /\ IF hostOk
       THEN /\ menu' = [menu EXCEPT ![p] = AppMenu]
            /\ phase' = [phase EXCEPT ![p] = "running"]
            /\ UNCHANGED <<ctx, managed>>
       ELSE /\ menu' = menu
            /\ phase' = [phase EXCEPT ![p] = "crashed"]
            /\ ctx' = [ctx EXCEPT ![p] = NoContext]
            /\ managed' = [managed EXCEPT ![p] = NoCliArgs]
    /\ UNCHANGED <<platform, installerVars, role, pending, opened, queryVars, last>>

(* The single-instance callback, lines 59-65, on the forwarded launch m.   *)
SingleInstance(m, host) ==
    /\ m \in pending /\ m.to \in Alive
    /\ LET calls == single_instance_callback(m.args, m.cwd, host) IN
       /\ last' = [op |-> "single_instance", proc |-> m.to, from |-> m.from,
                   sender |-> ctx[m.from], args |-> m.args, cwd |-> m.cwd,
                   host |-> host, calls |-> calls]
       /\ opened' = opened + Cardinality({i \in 1..Len(calls) :
                        calls[i].call = "emit" /\ calls[i].event = "open-files"})
    /\ pending' = pending \ {m}
    /\ ctx' = [ctx EXCEPT ![m.from] = NoContext]
    /\ UNCHANGED <<platform, installerVars, role, phase, managed, menu, queryVars>>

(* The on_menu_event handler, lines 131-146, on an activation of item id.  *)
MenuEvent(p, id, ok) ==
    /\ p \in Running
    /\ id \in menu[p].custom \cup menu[p].predefined \cup {"unknown_item"}
    /\ last' = [op |-> "menu_event", proc |-> p, id |-> id,
                calls |-> on_menu_event(id, ok)]
    /\ UNCHANGED <<platform, installerVars, processVars, queryVars>>

----------------------------------------------------------------------------
(* get_cli_args, lines 50-54, on query thread t of process p.              *)

(* state.lock() of a call that finds the mutex held: the thread blocks.    *)
GetWait(p, t) ==
    /\ p \in Running
    /\ query[t] = "idle" /\ mutex # 0
    /\ query' = [query EXCEPT ![t] = "waiting"]
    /\ UNCHANGED <<platform, installerVars, processVars, mutex, answered, last>>

(* A variant of line 52: the record is read without taking the mutex.      *)
GetLock_NoExclusion(p, t) ==
    /\ p \in Running
    /\ query[t] \in {"idle", "waiting"}
    /\ mutex' = t
    /\ query' = [query EXCEPT ![t] = "locked"]
    /\ UNCHANGED <<platform, installerVars, processVars, answered, last>>

(* state.lock() returns the guard: at once for a call that finds the       *)
(* mutex free, or to a blocked thread once it is free.                     *)
GetLock(p, t) ==
    /\ p \in Running
    /\ query[t] \in {"idle", "waiting"} /\ mutex = 0
    /\ mutex' = t
    /\ query' = [query EXCEPT ![t] = "locked"]
    /\ UNCHANGED <<platform, installerVars, processVars, answered, last>>

(* The clones, the return, and the guard's drop.                           *)
GetReturn(p, t) ==
    /\ p \in Running
    /\ query[t] = "locked" /\ mutex = t
    /\ last' = [op |-> "get_cli_args", proc |-> p, thread |-> t,
                ret |-> get_cli_args(managed[p])]
    /\ answered' = [answered EXCEPT ![p] = @ \cup {get_cli_args(managed[p])}]
    /\ mutex' = 0
    /\ query' = [query EXCEPT ![t] = "idle"]
    /\ UNCHANGED <<platform, installerVars, processVars>>

----------------------------------------------------------------------------
(* install_cli, lines 6-43, as call t of the running process.              *)

NoOutput == [spawned |-> FALSE, success |-> FALSE, stderr |-> <<>>, err |-> <<>>]

(* What a returned call did: the install path as it read it, whether it    *)
(* read at all, how often it started the elevation tool, how many prompts  *)
(* and writes that made, the tool's output, and the value returned.        *)
Returned(t, seen, read, attempts, out, ret, ac, am) ==
    [op |-> "install_cli", thread |-> t, seen |-> seen, read |-> read,
     attempts |-> attempts, prompts |-> IF out.spawned THEN attempts ELSE 0,
     writes |-> IF out.success THEN attempts ELSE 0, out |-> out, ret |-> ret,
     afterConv |-> ac, afterMust |-> am]

(* Lines 7-17 and 39-42: up to the early return.                           *)
InstallCheck(t) ==
    /\ Running # {}
    /\ inst[t].pc = "idle"
    /\ IF platform # "macos"
       THEN /\ last' = Returned(t, Missing, FALSE, 0, NoOutput, Unsupported, conv, must)
            /\ UNCHANGED <<inst, conv>>
       ELSE IF is_installed(file)
       THEN /\ last' = Returned(t, file, TRUE, 0, NoOutput,
                                Ok(<<"already_installed">>), conv, must)
            /\ conv' = TRUE
            /\ inst' = inst
       ELSE /\ inst' = [inst EXCEPT ![t] = [pc |-> "write", seen |-> file,
                                            afterConv |-> conv, afterMust |-> must]]
            /\ UNCHANGED <<last, conv>>
    /\ UNCHANGED <<platform, file, must, processVars, queryVars>>

(* A variant of lines 23-30: .output().unwrap() in place of map_err and   *)
(* `?`, so that a spawn error is a panic of the process.                   *)
InstallWrite_Unwrap(t, out) ==
    /\ inst[t].pc = "write"
    /\ out.success => PrivilegedWrite.ok
    /\ file' = IF out.success THEN FileAfter(file, PrivilegedWrite) ELSE file
    /\ LET ret == install_result(out) IN
       /\ last' = Returned(t, inst[t].seen, TRUE, 1, out, ret,
                           inst[t].afterConv, inst[t].afterMust)
       /\ conv' = (conv \/ (ret.ok /\ file'.readable))
    /\ must' = TRUE
    /\ inst' = [inst EXCEPT ![t] = Idle]
    /\ phase' = [p \in Procs |-> IF ~out.spawned /\ phase[p] = "running"
                                 THEN "crashed" ELSE phase[p]]
    /\ UNCHANGED <<platform, ctx, role, managed, pending, opened, menu, queryVars>>

(* A variant of lines 23-37: after a failure the tool is started a second  *)
(* time, and fails again.                                                  *)
InstallWrite_Retry(t, out) ==
    /\ inst[t].pc = "write"
    /\ out.success => PrivilegedWrite.ok
    /\ file' = IF out.success THEN FileAfter(file, PrivilegedWrite) ELSE file
    /\ LET ret == install_result(out) IN
       /\ last' = Returned(t, inst[t].seen, TRUE, IF out.success THEN 1 ELSE 2, out, ret,
                           inst[t].afterConv, inst[t].afterMust)
       /\ conv' = (conv \/ (ret.ok /\ file'.readable))
    /\ must' = TRUE
    /\ inst' = [inst EXCEPT ![t] = Idle]
    /\ UNCHANGED <<platform, processVars, queryVars>>

(* Lines 19-37: the privileged command and the value returned.             *)
InstallWrite(t, out) ==
    /\ inst[t].pc = "write"
    /\ out.success => PrivilegedWrite.ok
    /\ file' = IF out.success THEN FileAfter(file, PrivilegedWrite) ELSE file
    /\ LET ret == install_result(out) IN
       /\ last' = Returned(t, inst[t].seen, TRUE, 1, out, ret,
                           inst[t].afterConv, inst[t].afterMust)
       /\ conv' = (conv \/ (ret.ok /\ file'.readable))
    /\ must' = TRUE
    /\ inst' = [inst EXCEPT ![t] = Idle]
    /\ UNCHANGED <<platform, processVars, queryVars>>

----------------------------------------------------------------------------

(* The specifications.  Spec is the whole program, every handler          *)
(* interleaved with every other, cut after MaxOps steps.  The others let   *)
(* one part of the program run freely while the rest stands still.         *)

Tick == nops < MaxOps /\ nops' = nops + 1

MenuInputs == CustomItemIds \cup PredefinedItems \cup {"unknown_item"}
MenuSample == {"new_tab", "quit", "unknown_item"}
FirstContext == CHOOSE c \in LaunchContexts : c.args = <<"skriv", "a.txt">>

Next ==
    \/ \E p \in Procs, c \in LaunchContexts : Tick /\ Launch(p, c)
    \/ \E p \in Procs, hostOk \in BOOLEAN : Tick /\ Setup(p, hostOk)
    \/ \E m \in pending, host \in HostAnswers : Tick /\ SingleInstance(m, host)
    \/ \E p \in Procs, id \in MenuSample, ok \in BOOLEAN : Tick /\ MenuEvent(p, id, ok)
    \/ \E p \in Procs, t \in QueryThreads : Tick /\ GetWait(p, t)
    \/ \E p \in Procs, t \in QueryThreads : Tick /\ GetLock(p, t)
    \/ \E p \in Procs, t \in QueryThreads : Tick /\ GetReturn(p, t)
    \/ \E t \in InstallThreads : Tick /\ InstallCheck(t)
    \/ \E t \in InstallThreads, out \in OsaOutputs : Tick /\ InstallWrite(t, out)

Spec == Init /\ [][Next]_vars

(* install_cli in one running process.                                     *)
NextInstaller ==
    \/ Launch(1, FirstContext) /\ UNCHANGED nops
    \/ \E hostOk \in BOOLEAN : Setup(1, hostOk) /\ UNCHANGED nops
    \/ \E t \in InstallThreads : InstallCheck(t) /\ UNCHANGED nops
    \/ \E t \in InstallThreads, out \in OsaOutputs : InstallWrite(t, out) /\ UNCHANGED nops

SpecInstaller == InitInstaller /\ [][NextInstaller]_vars

(* The same with the calls made one after the other.                       *)
NoCallInProgress == \A t \in InstallThreads : inst[t].pc = "idle"

NextSequential ==
    \/ Launch(1, FirstContext) /\ UNCHANGED nops
    \/ \E hostOk \in BOOLEAN : Setup(1, hostOk) /\ UNCHANGED nops
    \/ \E t \in InstallThreads : NoCallInProgress /\ InstallCheck(t) /\ UNCHANGED nops
    \/ \E t \in InstallThreads, out \in OsaOutputs : InstallWrite(t, out) /\ UNCHANGED nops

SpecSequential == InitInstaller /\ [][NextSequential]_vars

(* Process launches and the single-instance callback.                      *)
NextInstances ==
    \/ \E p \in Procs, c \in LaunchContexts : Launch(p, c) /\ UNCHANGED nops
    \/ \E p \in Procs, hostOk \in BOOLEAN : Setup(p, hostOk) /\ UNCHANGED nops
    \/ \E m \in pending, host \in HostAnswers : SingleInstance(m, host) /\ UNCHANGED nops

SpecInstances == Init /\ [][NextInstances]_vars

(* The menu of one process.                                                *)
NextMenu ==
    \/ \E c \in LaunchContexts : Launch(1, c) /\ UNCHANGED nops
    \/ \E hostOk \in BOOLEAN : Setup(1, hostOk) /\ UNCHANGED nops
    \/ \E id \in MenuInputs, ok \in BOOLEAN : MenuEvent(1, id, ok) /\ UNCHANGED nops

SpecMenu == Init /\ [][NextMenu]_vars

(* get_cli_args in one process, with finitely many calls (at most MaxOps   *)
(* are started).  A thread that holds the guard runs on to its return, and *)
(* a blocked thread takes the mutex if it stays free.                      *)
Acquire(p, t) == query[t] = "waiting" /\ GetLock(p, t) /\ UNCHANGED nops

NextQueries ==
    \/ \E c \in LaunchContexts : Launch(1, c) /\ UNCHANGED nops
    \/ \E hostOk \in BOOLEAN : Setup(1, hostOk) /\ UNCHANGED nops
    \/ \E t \in QueryThreads : Tick /\ GetWait(1, t)
    \/ \E t \in QueryThreads : Tick /\ query[t] = "idle" /\ GetLock(1, t)
    \/ \E t \in QueryThreads : Acquire(1, t)
    \/ \E t \in QueryThreads : GetReturn(1, t) /\ UNCHANGED nops

QueryFairness ==
    \A t \in QueryThreads :
        /\ WF_vars(Acquire(1, t))
        /\ WF_vars(GetReturn(1, t) /\ UNCHANGED nops)

SpecQueries == Init /\ [][NextQueries]_vars /\ QueryFairness

----------------------------------------------------------------------------
(* The properties.                                                         *)

AlreadyInstalled == Ok(<<"already_installed">>)
Installed == Ok(<<"installed">>)

(* expected_content: the launcher a successful install leaves.             *)
ExpectedContent == PrivilegedWrite.content

InstallReturned == last.op = "install_cli" /\ platform = "macos"

(* C1, as stated: with the calls made one after the other and nothing else *)
(* touching the install path, the first call that has to write makes       *)
(* exactly one write, and every call after it returns already_installed    *)
(* and makes no write and no elevation prompt.                             *)
C1_AsStated ==
    /\ InstallReturned /\ last.attempts > 0 => last.writes = 1
    /\ InstallReturned /\ last.afterMust =>
           last.ret = AlreadyInstalled /\ last.writes = 0 /\ last.prompts = 0
    /\ \A t \in InstallThreads : inst[t].pc = "write" => ~inst[t].afterMust

(* C1, amended: with the calls made one after the other, a call makes at   *)
(* most one write and one elevation prompt, and returns installed only     *)
(* after exactly one write; once a call has returned installed or          *)
(* already_installed and the launcher it left can be read by the process,  *)
(* the install path holds the launcher and every later call returns        *)
(* already_installed with no write, no prompt and no start of the          *)
(* elevation tool.                                                         *)
C1_Idempotence ==
    /\ InstallReturned =>
           /\ last.attempts <= 1 /\ last.writes <= 1 /\ last.prompts <= 1
           /\ last.ret = Installed => last.writes = 1
           /\ last.afterConv =>
                  /\ last.ret = AlreadyInstalled
                  /\ last.attempts = 0 /\ last.writes = 0 /\ last.prompts = 0
    /\ \A t \in InstallThreads : inst[t].pc = "write" => ~inst[t].afterConv
    /\ conv => file.exists /\ file.readable /\ file.content = ExpectedContent

(* A call returned already_installed after an earlier call had to write    *)
(* and wrote.                                                              *)
C1_Witness ==
    /\ InstallReturned /\ last.afterMust /\ last.afterConv
    /\ last.ret = AlreadyInstalled

(* The install path as a call saw it makes the call write.                 *)
NeedsWrite(f) == ~f.exists \/ ~f.readable \/ f.content # ExpectedContent

(* C2: a call goes on to the privileged write if and only if the file at   *)
(* the install path is missing, unreadable or differs from                 *)
(* expected_content; otherwise it returns already_installed without a      *)
(* write or a prompt.                                                      *)
C2_ContentEqualityGate ==
    /\ InstallReturned =>
           /\ last.attempts > 0 <=> NeedsWrite(last.seen)
           /\ ~NeedsWrite(last.seen) =>
                  /\ last.ret = AlreadyInstalled
                  /\ last.writes = 0 /\ last.prompts = 0
    /\ platform = "macos" =>
           \A t \in InstallThreads : inst[t].pc = "write" => NeedsWrite(inst[t].seen)

(* A call that found the launcher one byte short went on to the write.     *)
C2_Witness ==
    /\ InstallReturned /\ last.attempts = 1
    /\ last.seen.exists /\ last.seen.readable
    /\ last.seen.content = Truncated(ExpectedContent)

Secondaries == {p \in Procs : role[p] = "secondary"}

OpenFilesEmits(calls) ==
    {i \in 1..Len(calls) : calls[i].call = "emit" /\ calls[i].event = "open-files"}

C3_State ==
    /\ Cardinality(Primaries) <= 1
    /\ \A m \in pending :
           /\ role[m.from] = "secondary" /\ role[m.to] = "primary"
           /\ m.args = ctx[m.from].args
           /\ ctx[m.from].cwd.ok /\ IsUtf8(ctx[m.from].cwd.bytes) =>
                  m.cwd = ctx[m.from].cwd.bytes
    /\ opened + Cardinality(pending) = Cardinality(Secondaries)
    /\ last.op = "single_instance" =>
           /\ role[last.from] = "secondary" /\ role[last.proc] = "primary"
           /\ Cardinality(OpenFilesEmits(last.calls)) = 1

C3_Step ==
    \A p \in Procs :
        /\ role[p] # "none" => role'[p] = role[p]
        /\ phase[p] = "unstarted" /\ phase'[p] # "unstarted" /\ Primaries # {} =>
               /\ role'[p] = "secondary"
               /\ \E m \in pending' : m.from = p /\ m.to \in Primaries
        /\ role[p] = "secondary" /\ (\E m \in pending : m.from = p)
             /\ ~(\E m \in pending' : m.from = p) => opened' = opened + 1

C4_ForwardingFidelity ==
    last.op = "single_instance" =>
        /\ Len(last.calls) >= 1
        /\ last.calls[1].call = "emit" /\ last.calls[1].event = "open-files"
        /\ last.calls[1].payload = <<last.args, last.cwd>>
        /\ last.args = last.sender.args
        /\ last.sender.cwd.ok /\ IsUtf8(last.sender.cwd.bytes) =>
               last.calls[1].payload = <<last.sender.args, last.sender.cwd.bytes>>

(* The primary, started with a.txt in /home/u, emitted the pair of a       *)
(* secondary started with b.txt in /tmp.                                   *)
C4_Witness ==
    /\ last.op = "single_instance"
    /\ last.calls[1].payload = <<(<<"skriv", "b.txt">>), (<<"/tmp">>)>>
    /\ managed[last.proc] = [args |-> <<"skriv", "a.txt">>, cwd |-> <<"/home/u">>]

C5_State ==
    /\ \A p \in Alive :
           /\ managed[p].args = ctx[p].args
           /\ ctx[p].cwd.ok /\ IsUtf8(ctx[p].cwd.bytes) => managed[p].cwd = ctx[p].cwd.bytes
    /\ last.op = "get_cli_args" =>
           last.ret = <<managed[last.proc].args, managed[last.proc].cwd>>
    /\ \A p \in Procs : Cardinality(answered[p]) <= 1

C5_Step ==
    \A p \in Procs : role[p] = "primary" /\ phase'[p] # "crashed" => managed'[p] = managed[p]

(* C5: every get_cli_args call of a process returns the same pair, the one *)
(* captured when the process started, whatever else ran in between; no     *)
(* step after the start changes the stored record.                         *)
C5_LaunchContextStability == []C5_State /\ [][C5_Step]_vars

(* A query answered the primary's own pair after a forwarded launch had    *)
(* been handled.                                                           *)
C5_Witness ==
    /\ last.op = "get_cli_args" /\ opened >= 1
    /\ last.ret = <<(<<"skriv", "a.txt">>), (<<"/home/u">>)>>

(* The event of each custom item, as the interface names them.             *)
MenuEventFor ==
    [new_tab |-> "menu-new-tab", open_file |-> "menu-open-file",
     save_file |-> "menu-save-file", save_file_as |-> "menu-save-file-as",
     toggle_comment |-> "menu-toggle-comment",
     format_document |-> "menu-format-document",
     column_selection |-> "menu-column-selection",
     command_palette |-> "menu-command-palette", word_wrap |-> "menu-word-wrap",
     toggle_theme |-> "menu-toggle-theme"]

(* C6: an activation of a custom item makes exactly one emit, of the event *)
(* mapped to the item, with the empty payload; an activation of any other  *)
(* item makes no call, and the process goes on running.                    *)
C6_MenuDispatch ==
    last.op = "menu_event" =>
        /\ phase[last.proc] = "running"
        /\ IF last.id \in DOMAIN MenuEventFor
           THEN /\ Len(last.calls) = 1
                /\ last.calls[1].call = "emit"
                /\ last.calls[1].event = MenuEventFor[last.id]
                /\ last.calls[1].payload = <<>>
           ELSE last.calls = <<>>

(* Save As... was activated and its event emitted.                         *)
C6_Witness ==
    /\ last.op = "menu_event" /\ last.id = "save_file_as"
    /\ Len(last.calls) = 1 /\ last.calls[1].event = "menu-save-file-as"

InterfaceMenuEvents ==
    {"menu-command-palette", "menu-word-wrap", "menu-toggle-comment", "menu-new-tab",
     "menu-open-file", "menu-save-file", "menu-save-file-as", "menu-format-document",
     "menu-column-selection", "menu-toggle-theme"}

EventsOf(id) == {on_menu_event(id, TRUE)[i].event : i \in 1..Len(on_menu_event(id, TRUE))}

(* C7: in a menu that was set, the custom items are the ten identifiers,   *)
(* each has exactly one event, no two share one, and the events are the    *)
(* ten menu-* events of the interface.                                     *)
C7_MenuMappingTotal ==
    \A p \in Procs : menu[p] # NoMenu =>
        /\ menu[p].custom = DOMAIN MenuEventFor
        /\ \A id \in menu[p].custom : Len(on_menu_event(id, TRUE)) = 1
        /\ \A a, b \in menu[p].custom : a # b => EventsOf(a) \cap EventsOf(b) = {}
        /\ UNION {EventsOf(id) : id \in menu[p].custom} = InterfaceMenuEvents

(* The setup closure has set the menu of the running process.              *)
C7_Witness == Running # {} /\ \E p \in Running : Cardinality(menu[p].custom) = 10

WriteReturned == InstallReturned /\ last.attempts > 0

(* C9, as stated: a failed write step returns the error branch with the    *)
(* tool's stderr, or the spawn error's text, exactly; installed is         *)
(* returned only when the tool exited successfully.                        *)
C9_AsStated ==
    WriteReturned =>
        /\ last.ret = Installed <=> last.out.spawned /\ last.out.success
        /\ ~last.out.spawned => last.ret = Err(last.out.err)
        /\ last.out.spawned /\ ~last.out.success => last.ret = Err(last.out.stderr)

(* C9, amended: a failed write step returns the error branch with the      *)
(* spawn error's text, or with the tool's stderr in which every byte that  *)
(* is not valid UTF-8 is replaced by U+FFFD (so the stderr itself when it  *)
(* is valid UTF-8), and no other text; installed is returned only when the *)
(* tool exited successfully.                                               *)
C9_ErrorTransparency ==
    WriteReturned =>
        /\ last.ret = Installed <=> last.out.spawned /\ last.out.success
        /\ ~last.out.spawned => last.ret = Err(last.out.err)
        /\ last.out.spawned /\ ~last.out.success =>
               /\ ~last.ret.ok
               /\ Len(last.ret.text) = Len(last.out.stderr)
               /\ \A i \in 1..Len(last.out.stderr) :
                      last.ret.text[i] = IF last.out.stderr[i] = InvalidByte
                                         THEN Replacement ELSE last.out.stderr[i]

(* The tool failed with "operation not permitted" and the call returned    *)
(* that text.                                                              *)
C9_Witness ==
    /\ WriteReturned /\ last.out.spawned /\ ~last.out.success
    /\ last.out.stderr = <<"operation not permitted">>
    /\ last.ret = Err(<<"operation not permitted">>)

C10_State ==
    last.op = "single_instance" =>
        /\ Len(last.calls) >= 1
        /\ last.calls[1] = Emit("open-files", <<last.args, last.cwd>>, last.host.emit)
        /\ last.host.window =>
               /\ Len(last.calls) = 3
               /\ last.calls[2] = HostCall("unminimize", last.host.unminimize)
               /\ last.calls[3] = HostCall("set_focus", last.host.focus)
        /\ ~last.host.window => Len(last.calls) = 1

C10_Step ==
    \A m \in pending : m \notin pending' =>
        /\ phase' = phase
        /\ opened' = opened + 1
        /\ pending' = pending \ {m}

(* C10: on a forwarded launch the open-files emit is made whether or not   *)
(* the main window exists, and unminimize and set_focus are made on an     *)
(* existing window whether or not the emit, or the unminimize, succeeded;  *)
(* no failure ends the process, and the launch is handled once.            *)
C10_NonFatalForwarding == []C10_State /\ [][C10_Step]_vars

(* A forwarded launch was handled with no main window and a failing emit,  *)
(* and the primary runs.                                                   *)
C10_Witness ==
    /\ last.op = "single_instance" /\ ~last.host.window /\ ~last.host.emit
    /\ phase[last.proc] = "running"

C11_State ==
    platform # "macos" =>
        /\ last.op = "install_cli" =>
               /\ last.ret = Err(<<"CLI installation is only supported on macOS">>)
               /\ ~last.ret.ok
               /\ ~last.read
               /\ last.attempts = 0 /\ last.prompts = 0 /\ last.writes = 0
        /\ \A t \in InstallThreads : inst[t].pc = "idle"

C11_Step == platform # "macos" => file' = file

(* C11: on a platform other than macOS every install_cli call returns the  *)
(* error branch with the message that installation is only supported on    *)
(* macOS, without reading the install path, starting the elevation tool,   *)
(* prompting or writing, whatever the install path holds; no step changes  *)
(* the install path.                                                       *)
C11_UnsupportedPlatform == []C11_State /\ [][C11_Step]_vars

(* On another platform a call returned while the install path held an      *)
(* older launcher.                                                         *)
C11_Witness ==
    /\ platform # "macos" /\ last.op = "install_cli"
    /\ file.exists /\ file.content = OlderScript

FailedInstall == last.op = "install_cli" /\ ~last.ret.ok

C12_State ==
    FailedInstall =>
        /\ Cardinality(Running) = 1
        /\ \A p \in Running :
               /\ role[p] = "primary" /\ menu[p] = AppMenu
               /\ managed[p].args = ctx[p].args
               /\ \A id \in CustomItemIds : ENABLED MenuEvent(p, id, TRUE)
               /\ \A t \in QueryThreads :
                      /\ query[t] # "locked" /\ mutex = 0 => ENABLED GetLock(p, t)
                      /\ query[t] = "locked" => ENABLED GetReturn(p, t)
               /\ \A m \in pending :
                      m.to = p => \A host \in HostAnswers : ENABLED SingleInstance(m, host)

C12_Step ==
    /\ \A p \in Procs : phase[p] = "running" => phase'[p] = "running"
    /\ inst' # inst \/ (last' # last /\ last'.op = "install_cli") =>
           UNCHANGED <<processVars, queryVars>>

(* C12: no step of an install_cli call, whatever it returns, changes the   *)
(* phase, the role, the stored record, the menu or the pending launches of *)
(* a process, and a running process stays running; when a call has         *)
(* returned the error branch, the process that made it is running with its *)
(* menu set, and its get_cli_args, menu and single-instance handlers can   *)
(* run.                                                                    *)
C12_InstallerNeverFatal == []C12_State /\ [][C12_Step]_vars

(* After an install_cli call whose elevation tool could not be started, a  *)
(* get_cli_args call of the same process returned the process's pair.      *)
C12_Witness ==
    /\ platform = "macos" /\ must /\ ~file.exists
    /\ last.op = "get_cli_args" /\ last.ret = get_cli_args(CliArgs(ctx[last.proc]))
    /\ Len(last.ret[1]) > 0

WindowRequests(calls) ==
    {i \in 1..Len(calls) : calls[i].call \in {"unminimize", "set_focus"}}

(* C13: in the handling of a forwarded launch the open-files emit comes    *)
(* before every unminimize and set_focus request, and unminimize before    *)
(* set_focus; no such request is made without the emit before it.          *)
C13_ReceiptOrdering ==
    last.op = "single_instance" =>
        /\ \A i \in OpenFilesEmits(last.calls), j \in WindowRequests(last.calls) : i < j
        /\ \A j \in WindowRequests(last.calls) :
               \E i \in OpenFilesEmits(last.calls) : i < j
        /\ \A i, j \in 1..Len(last.calls) :
               last.calls[i].call = "unminimize" /\ last.calls[j].call = "set_focus"
                   => i < j
        /\ \A j \in 1..Len(last.calls) :
               last.calls[j].call = "set_focus" =>
                   \E i \in 1..(j - 1) : last.calls[i].call = "unminimize"

(* A forwarded launch was handled with the main window present: the emit,  *)
(* the restore and the focus request were all made.                        *)
C13_Witness ==
    /\ last.op = "single_instance" /\ last.host.window
    /\ OpenFilesEmits(last.calls) # {}
    /\ Cardinality(WindowRequests(last.calls)) = 2

(* The elevation prompt dismissed by the user.                             *)
Dismissed ==
    [spawned |-> TRUE, success |-> FALSE,
     stderr |-> <<"0:124: execution error: User canceled. (-128)", NL>>, err |-> <<>>]

C14_State ==
    /\ InstallReturned =>
           /\ last.attempts <= 1 /\ last.prompts <= 1
           /\ last.attempts = 1 /\ ~(last.out.spawned /\ last.out.success) =>
                  ~last.ret.ok
    /\ \A t \in InstallThreads : inst[t].pc = "write" => ENABLED InstallWrite(t, Dismissed)

C14_Step ==
    /\ \A t \in InstallThreads :
           inst[t].pc = "write" /\ inst'[t] # inst[t] =>
               /\ inst'[t] = Idle
               /\ last'.op = "install_cli" /\ last'.thread = t
    /\ NoCallInProgress => file' = file
    /\ file' # file => last'.op = "install_cli" /\ last'.writes = 1

(* C14: a call starts the elevation tool at most once and so makes at most *)
(* one prompt; when the prompt is dismissed, or the tool fails otherwise,  *)
(* the call returns the error branch and is over; the install path        *)
(* changes only in a call's own write, never while no call is in progress. *)
C14_NoAutomaticRetry == []C14_State /\ [][C14_Step]_vars

(* The user dismissed the prompt: the call returned the error branch and   *)
(* no call is in progress.                                                 *)
C14_Witness ==
    /\ InstallReturned /\ last.out = Dismissed /\ last.prompts = 1
    /\ ~last.ret.ok /\ NoCallInProgress /\ file = last.seen

(* A step of the installer: a call starts, or returns.                     *)
InstallerStep == inst' # inst \/ (last' # last /\ last'.op = "install_cli")

(* A step of the startup of process p.                                     *)
StartupStep(p) == phase[p] \in {"unstarted", "built"} /\ phase'[p] # phase[p]

C15_Records(p) ==
    phase[p] = "unstarted" /\ phase'[p] = "built" =>
        /\ role'[p] = "primary"
        /\ managed'[p].args = ctx'[p].args
        /\ ctx'[p].cwd.ok /\ IsUtf8(ctx'[p].cwd.bytes) =>
               managed'[p].cwd = ctx'[p].cwd.bytes

C15_BuildsMenu(p) ==
    phase[p] = "built" /\ phase'[p] = "running" =>
        /\ menu[p] = NoMenu /\ menu'[p] = AppMenu
        /\ managed'[p] = managed[p] /\ managed'[p].args = ctx'[p].args

(* C15, as stated: when a process starts as primary its launch context is  *)
(* recorded, then the menu is built and the event translation registered,  *)
(* and the installer is started as part of that startup.                   *)
C15_AsStated ==
    [][\A p \in Procs :
          /\ C15_Records(p)
          /\ C15_BuildsMenu(p)
          /\ phase[p] = "built" /\ phase'[p] = "running" => InstallerStep]_vars

C15_State ==
    \A p \in Running :
        /\ role[p] = "primary" /\ menu[p] = AppMenu
        /\ \A id \in CustomItemIds : ENABLED MenuEvent(p, id, TRUE)

C15_Step ==
    /\ \A p \in Procs :
           /\ C15_Records(p)
           /\ C15_BuildsMenu(p)
           /\ StartupStep(p) => ~InstallerStep /\ UNCHANGED installerVars
    /\ InstallerStep => Running # {}

(* C15, amended: when a process starts as primary its launch context is    *)
(* recorded, then the menu is built and the event translation registered;  *)
(* the installer is no part of the startup: no step of a startup starts an *)
(* install_cli call or touches the install path, and a call starts only in *)
(* a process whose startup has completed.                                  *)
C15_StartupSequence == []C15_State /\ [][C15_Step]_vars

(* A primary has completed its startup, with its record and its menu, on a *)
(* machine without the launcher, and no install_cli call has been made.    *)
C15_Witness ==
    /\ \E p \in Running :
           /\ managed[p] = [args |-> <<"skriv", "a.txt">>, cwd |-> <<"/home/u">>]
           /\ menu[p] = AppMenu
    /\ platform = "macos" /\ ~file.exists
    /\ last.op = "none" /\ ~must /\ ~conv /\ NoCallInProgress

CaptureFailed(p) == p \in Alive /\ ~ctx[p].cwd.ok

(* C16: a process whose working-directory query failed at its start still  *)
(* completes its startup; its stored working directory is the empty        *)
(* string, and every get_cli_args call of it returns its arguments with    *)
(* the empty working directory.                                            *)
C16_CaptureFailureAbsorbed ==
    /\ \A p \in Procs : CaptureFailed(p) =>
           /\ managed[p] = [args |-> ctx[p].args, cwd |-> <<>>]
           /\ phase[p] = "built" => ENABLED Setup(p, TRUE)
           /\ \A r \in answered[p] : r = <<ctx[p].args, <<>>>>
           /\ \A t \in QueryThreads :
                  /\ phase[p] = "running" /\ query[t] # "locked" /\ mutex = 0
                         => ENABLED GetLock(p, t)
                  /\ phase[p] = "running" /\ query[t] = "locked"
                         => ENABLED GetReturn(p, t)
    /\ last.op = "get_cli_args" /\ CaptureFailed(last.proc) =>
           last.ret = <<ctx[last.proc].args, <<>>>>

(* A process whose working-directory query had failed runs, and a          *)
(* get_cli_args call returned its arguments with the empty directory.      *)
C16_Witness ==
    /\ last.op = "get_cli_args" /\ CaptureFailed(last.proc)
    /\ phase[last.proc] = "running"
    /\ last.ret = <<(<<"skriv">>), <<>>>>

Holders == {t \in QueryThreads : query[t] = "locked"}

C17_State ==
    /\ Cardinality(Holders) <= 1
    /\ \A t \in QueryThreads : query[t] = "locked" <=> mutex = t
    /\ \A t \in QueryThreads :
           /\ query[t] = "locked" => ENABLED GetReturn(1, t)
           /\ query[t] = "waiting" =>
                  \/ mutex = 0 /\ ENABLED GetLock(1, t)
                  \/ mutex \in QueryThreads /\ ENABLED GetReturn(1, mutex)
    /\ \A p \in Procs : Cardinality(answered[p]) <= 1
    /\ last.op = "get_cli_args" => last.ret = get_cli_args(managed[last.proc])

C17_Step ==
    /\ \A t \in QueryThreads :
           /\ query[t] = "locked" /\ query'[t] # "locked" =>
                  /\ query'[t] = "idle" /\ mutex' = 0
                  /\ last'.op = "get_cli_args" /\ last'.thread = t
           /\ query[t] # "locked" /\ query'[t] = "locked" => mutex = 0 /\ mutex' = t
           /\ query[t] = "idle" /\ query'[t] = "waiting" => mutex # 0
    /\ mutex # 0 => managed' = managed

C17_Returns ==
    \A t \in QueryThreads : (query[t] # "idle") ~> (query[t] = "idle")

(* C17: at most one get_cli_args call holds the mutex at a time; a call    *)
(* takes it only when it is free, holds it for its read alone and frees it *)
(* when it returns; a blocked call waits for a holder that can return;     *)
(* every call that has started returns; every call of a process returns    *)
(* the same value.                                                         *)
C17_LockDiscipline == []C17_State /\ [][C17_Step]_vars /\ C17_Returns

(* A call is blocked while another holds the mutex, after an earlier call  *)
(* has returned.                                                           *)
C17_Witness ==
    /\ \E t, u \in QueryThreads : query[t] = "waiting" /\ query[u] = "locked"
    /\ answered[1] # {}

(* C18: whenever a call returns installed or already_installed, the file   *)
(* at the install path holds expected_content, which is the content the    *)
(* check compares against, and has the executable bits, whatever the       *)
(* install path held at first.                                             *)
C18_InstalledState ==
    InstallReturned /\ last.ret \in {Installed, AlreadyInstalled} =>
        /\ file.exists /\ file.content = ExpectedContent
        /\ ExpectedContent = check_content
        /\ file.exec

(* A call returns that made its check before a call that had to write      *)
(* returned: the two calls overlapped.                                     *)
OverlappedReturn ==
    /\ platform = "macos"
    /\ last' # last /\ last'.op = "install_cli"
    /\ must /\ ~last'.afterMust

C19_Step ==
    OverlappedReturn =>
        /\ last.op = "install_cli" /\ (last.prompts = 1 \/ last.writes = 1) =>
               last'.prompts = 0 /\ last'.writes = 0
        /\ NoCallInProgress' /\ (last'.ret.ok \/ (last.op = "install_cli" /\ last.ret.ok)) =>
               file'.exists /\ file'.content = ExpectedContent

(* C19: of install_cli calls that overlap, at most one makes the elevation *)
(* prompt and the privileged write; once all of them have returned, one of *)
(* them with success, the install path holds expected_content, so that a   *)
(* later call returns already_installed.                                   *)
C19_ConcurrentInstalls == [][C19_Step]_vars

====
